---- MODULE Spec2Model ----
(***************************************************************************)
(* Hybrid recommendation predictor of the sentiment-review-predictor app:  *)
(* predictRecommendation tries the remote /api/predict endpoint once and   *)
(* degrades to the local lexicon scorer fallbackPrediction.  The catalog   *)
(* client of lib/api.ts (fetchProducts, fetchProductDetail, submitReview,  *)
(* fetchProductOptions) and the paging state of the catalog page           *)
(* pages/Index.tsx are modelled next to it.                                *)
(*                                                                         *)
(* Representation of JavaScript values                                     *)
(*   strings    sequences of one-character strings                         *)
(*   numbers    [t |-> "number", k |-> "fin"|"nan"|"inf"|"ninf", n |-> i]  *)
(*              (k = "below": the double next below n, see JustBelow)      *)
(*              n is an integer whose unit depends on the quantity:        *)
(*                rating, prediction        units of 1                     *)
(*                scores (totalScore, ...)  units of 1/3                   *)
(*                probability, confidence   units of 1/1000000             *)
(*   undefined, null, booleans, arrays      tagged records, see below      *)
(***************************************************************************)
EXTENDS Integers, Sequences, FiniteSets, TLC

(* ------------------------------ bounds --------------------------------- *)

\* A review text is the concatenation of at most MaxPieces pieces of TextPieces.
MaxPieces == 2

\* Finite ratings range over 0..MaxRating (the star widget gives 1..5).
MaxRating == 5

\* Number of predictRecommendation invocations of the concurrent specification.
NumCalls == 2

\* Number of pages of the whole catalog; a filtered result set has fewer.
MaxPages == 3

(* -------------------------- JavaScript values --------------------------- *)

Undefined == [t |-> "undefined"]

Null == [t |-> "null"]

Num(n) == [t |-> "number", k |-> "fin", n |-> n]

NaN == [t |-> "number", k |-> "nan", n |-> 0]

PosInfinity == [t |-> "number", k |-> "inf", n |-> 0]

NegInfinity == [t |-> "number", k |-> "ninf", n |-> 0]

Str(s) == [t |-> "string", s |-> s]

Bool(b) == [t |-> "boolean", b |-> b]

Arr(a) == [t |-> "array", a |-> a]

\* A finite number that double arithmetic tells from n only by its last bits:
\* as a rating, JustBelow(3) is 2.9999999999999996, the double next below 3;
\* as a score it is a value less than 1e-15 below n/3.
JustBelow(n) == [t |-> "number", k |-> "below", n |-> n]

\* Number.isFinite(x)
IsFinite(x) == x.t = "number" /\ x.k \in {"fin", "below"}

(* ------------------------------ lexicon --------------------------------- *)

FALLBACK_POSITIVE_WORDS ==
    { <<"a","m","a","z","i","n","g">>,
      <<"b","e","a","u","t","i","f","u","l">>,
      <<"b","e","s","t">>,
      <<"c","o","m","f","o","r","t","a","b","l","e">>,
      <<"e","x","c","e","l","l","e","n","t">>,
      <<"f","a","v","o","r","i","t","e">>,
      <<"g","r","e","a","t">>,
      <<"l","o","v","e">>,
      <<"p","e","r","f","e","c","t">>,
      <<"r","e","c","o","m","m","e","n","d">>,
      <<"s","t","y","l","i","s","h">>,
      <<"w","o","n","d","e","r","f","u","l">> }

\* Mutation of FALLBACK_NEGATIVE_WORDS: "love" is listed as a negative word
\* too.
NegativeWordsOverlapping ==
    { <<"b","a","d">>, <<"l","o","v","e">>, <<"w","o","r","s","t">> }

FALLBACK_NEGATIVE_WORDS ==
    { <<"a","w","f","u","l">>,
      <<"b","a","d">>,
      <<"c","h","e","a","p">>,
      <<"d","i","s","a","p","p","o","i","n","t","i","n","g">>,
      <<"h","o","r","r","i","b","l","e">>,
      <<"p","o","o","r">>,
      <<"r","e","t","u","r","n">>,
      <<"t","e","r","r","i","b","l","e">>,
      <<"u","n","c","o","m","f","o","r","t","a","b","l","e">>,
      <<"w","a","s","t","e">>,
      <<"w","o","r","s","t">> }

(* ----------------------------- tokenizer -------------------------------- *)

UpperLetters ==
    <<"A","B","C","D","E","F","G","H","I","J","K","L","M",
      "N","O","P","Q","R","S","T","U","V","W","X","Y","Z">>

LowerLetters ==
    <<"a","b","c","d","e","f","g","h","i","j","k","l","m",
      "n","o","p","q","r","s","t","u","v","w","x","y","z">>

Digits == <<"0","1","2","3","4","5","6","7","8","9">>

Range(s) == { s[i] : i \in DOMAIN s }

\* String.prototype.toLowerCase on one character: an upper-case ASCII letter
\* becomes its lower-case letter; the other characters modelled (lower-case
\* letters, digits, blank, "!", and "U+017F", the long s) are left as they are.
LowerChar(ch) ==
    IF \E i \in DOMAIN UpperLetters : UpperLetters[i] = ch
    THEN LowerLetters[CHOOSE i \in DOMAIN UpperLetters : UpperLetters[i] = ch]
    ELSE ch

\* Mutation of ToLowerCase: the text is matched as typed.
ToLowerCaseSkipped(s) == s

\* reviewText.toLowerCase()
ToLowerCase(s) == [i \in DOMAIN s |-> LowerChar(s[i])]

\* Mutation of IsAlnum: the text is split at blanks only.
IsNotBlank(ch) == ch # " "

\* The character class [a-z0-9].
IsAlnum(ch) == ch \in Range(LowerLetters) \cup Range(Digits)

\* s.match(/[a-z0-9]+/g): the maximal runs of [a-z0-9] characters, left to
\* right; runs holds the finished runs and cur the run being read.  The
\* result <<>> stands for match's null (no run), which `?? []` turns into [].
RECURSIVE MatchRuns(_, _, _, _)
MatchRuns(s, i, cur, runs) ==
    IF i > Len(s)
    THEN IF cur = <<>> THEN runs ELSE Append(runs, cur)
    ELSE IF IsAlnum(s[i])
         THEN MatchRuns(s, i + 1, Append(cur, s[i]), runs)
         ELSE MatchRuns(s, i + 1, <<>>,
                        IF cur = <<>> THEN runs ELSE Append(runs, cur))

\* (reviewText.toLowerCase().match(/[a-z0-9]+/g) ?? []).filter(Boolean)
Tokens(reviewText) ==
    SelectSeq(MatchRuns(ToLowerCase(reviewText), 1, <<>>, <<>>), LAMBDA tok : tok # <<>>)

\* Mutation of PositiveScore: every positive word counts once however often
\* it occurs.
PositiveScoreDistinct(reviewText) ==
    Cardinality({ tok \in Range(Tokens(reviewText)) : tok \in FALLBACK_POSITIVE_WORDS })

\* tokens.filter(token => FALLBACK_POSITIVE_WORDS.has(token)).length
PositiveScore(reviewText) ==
    Len(SelectSeq(Tokens(reviewText), LAMBDA tok : tok \in FALLBACK_POSITIVE_WORDS))

\* tokens.filter(token => FALLBACK_NEGATIVE_WORDS.has(token)).length
NegativeScore(reviewText) ==
    Len(SelectSeq(Tokens(reviewText), LAMBDA tok : tok \in FALLBACK_NEGATIVE_WORDS))

(* ------------------------------ scorer ---------------------------------- *)

\* The number 1 and the threshold 0.5 in units of 1/1000000.
One == 1000000

Half == 500000

\* Largest |totalScore| (in thirds) the table below lists; beyond it the
\* logistic value rounds to 0 or to 1 at six decimals.
SigmoidSpan == 45

\* round(1000000 / (1 + exp(-n/3))) for n = -45 .. 45, entry n + 46.
SigmoidTable ==
    << 0, 0, 1, 1, 1, 2, 2,
       3, 4, 6, 9, 12, 17, 23,
       33, 45, 63, 88, 123, 172, 240,
       335, 468, 653, 911, 1271, 1773, 2473,
       3447, 4805, 6693, 9316, 12954, 17986, 24924,
       34445, 47426, 64969, 88400, 119203, 158869, 208609,
       268941, 339244, 417430, 500000, 582570, 660756, 731059,
       791391, 841131, 880797, 911600, 935031, 952574, 965555,
       975076, 982014, 987046, 990684, 993307, 995195, 996553,
       997527, 998227, 998729, 999089, 999347, 999532, 999665,
       999760, 999828, 999877, 999912, 999937, 999955, 999967,
       999977, 999983, 999988, 999991, 999994, 999996, 999997,
       999998, 999998, 999999, 999999, 999999, 1000000, 1000000 >>

\* a + b on JavaScript numbers (both in the same unit).  A sum with a term
\* just below an integer stays just below the sum of the integers (for the
\* keyword counts of at most three that the texts modelled give).
JsAdd(a, b) ==
    IF a.k = "nan" \/ b.k = "nan" THEN NaN
    ELSE IF a.k = "fin" /\ b.k = "fin" THEN Num(a.n + b.n)
    ELSE IF IsFinite(a) /\ IsFinite(b) THEN JustBelow(a.n + b.n)
    ELSE IF IsFinite(a) THEN b
    ELSE IF IsFinite(b) \/ a.k = b.k THEN a
    ELSE NaN

\* Mutation of RatingAdjustment: (rating - 3) / 1.5 without the
\* Number.isFinite guard, so NaN and the infinities flow into the score.
RatingAdjustmentUnguarded(rating) ==
    IF IsFinite(rating) THEN [rating EXCEPT !.n = 2 * (@ - 3)] ELSE rating

\* Mutation of RatingAdjustment: the sign of the bias is inverted, (3 - rating) / 1.5.
RatingAdjustmentInverted(rating) ==
    IF rating.k = "fin" THEN Num(2 * (3 - rating.n)) ELSE Num(0)

\* Mutation of RatingAdjustment: the division is left out, rating - 3.
RatingAdjustmentUnscaled(rating) ==
    IF IsFinite(rating) THEN [rating EXCEPT !.n = 3 * (@ - 3)] ELSE Num(0)

\* Mutation of RatingAdjustment: the rating is ignored.
RatingAdjustmentIgnored(rating) == Num(0)

\* Number.isFinite(rating) ? (rating - 3) / 1.5 : 0, in thirds.  A rating
\* just below 3 gives an adjustment just below 0 (-2.96e-16).
RatingAdjustment(rating) ==
    IF IsFinite(rating) THEN [rating EXCEPT !.n = 2 * (@ - 3)] ELSE Num(0)

\* positiveScore - negativeScore + ratingAdjustment, in thirds.
TotalScore(reviewText, rating) ==
    JsAdd(Num(3 * (PositiveScore(reviewText) - NegativeScore(reviewText))),
          RatingAdjustment(rating))

\* 1 / (1 + Math.exp(-totalScore)), in millionths.  A score just below n/3
\* gives the value of n/3 at this resolution; just below 0 the doubles give
\* exactly 0.5 too: Math.exp(2.96e-16) is 1.0000000000000002, and 1 plus it
\* rounds to 2.
Probability(totalScore) ==
    CASE totalScore.k = "nan"  -> NaN
      [] totalScore.k = "inf"  -> Num(One)
      [] totalScore.k = "ninf" -> Num(0)
      [] OTHER ->
           IF totalScore.n > SigmoidSpan THEN Num(One)
           ELSE IF totalScore.n < 0 - SigmoidSpan THEN Num(0)
           ELSE Num(SigmoidTable[totalScore.n + SigmoidSpan + 1])

\* Mutation of PredictionOf: the test is strict, probability > 0.5.
PredictionOfStrict(probability) ==
    IF probability.k = "fin" /\ probability.n > Half THEN 1 ELSE 0

\* probability >= 0.5 ? 1 : 0 (a comparison with NaN is false).
PredictionOf(probability) ==
    IF probability.k = "fin" /\ probability.n >= Half THEN 1 ELSE 0

\* Mutation of ConfidenceOf: the probability of class 1 is reported for
\* either class.
ConfidenceOfClassOne(prediction, probability) == probability

\* prediction === 1 ? probability : 1 - probability
ConfidenceOf(prediction, probability) ==
    IF prediction = 1 THEN probability
    ELSE IF probability.k = "fin" THEN Num(One - probability.n)
    ELSE NaN

\* fallbackPrediction(reviewText, rating)
FallbackPrediction(reviewText, rating) ==
    LET probability == Probability(TotalScore(reviewText, rating))
        prediction  == PredictionOf(probability)
    IN  [ prediction |-> prediction,
          confidence |-> ConfidenceOf(prediction, probability),
          source     |-> "fallback" ]

(* ------------------------- response validation -------------------------- *)

\* The decimal value of a sequence of digit characters.
RECURSIVE DigitsValue(_)
DigitsValue(s) ==
    IF s = <<>> THEN 0
    ELSE 10 * DigitsValue(SubSeq(s, 1, Len(s) - 1))
         + (CHOOSE i \in DOMAIN Digits : Digits[i] = s[Len(s)]) - 1

\* s without its leading and trailing blanks.
RECURSIVE Trim(_)
Trim(s) ==
    IF s = <<>> THEN s
    ELSE IF Head(s) = " " THEN Trim(Tail(s))
    ELSE IF s[Len(s)] = " " THEN Trim(SubSeq(s, 1, Len(s) - 1))
    ELSE s

\* Number(s) for a string: blank is 0, an unsigned decimal integer literal is
\* its value, and a string that is no numeric literal is NaN.  (Signs,
\* fractions, exponents and radix prefixes are outside the strings modelled.)
StringToNumber(s) ==
    LET body == Trim(s)
    IN  IF body = <<>> THEN Num(0)
        ELSE IF \A i \in DOMAIN body : body[i] \in Range(Digits)
             THEN Num(DigitsValue(body))
             ELSE NaN

\* Number(v): the ToNumber coercion of a parsed JSON value.
ToNumber(v) ==
    CASE v.t = "undefined" -> NaN
      [] v.t = "null"      -> Num(0)
      [] v.t = "boolean"   -> IF v.b THEN Num(1) ELSE Num(0)
      [] v.t = "number"    -> v
      [] v.t = "string"    -> StringToNumber(v.s)
      [] v.t = "array"     -> IF v.a = <<>> THEN Num(0) ELSE NaN
      [] OTHER             -> NaN

\* data.prediction / data.confidence: a property read on the parsed body;
\* only an object body carries the two fields.
Field(data, name) ==
    IF data.t = "object"
    THEN IF name = "prediction" THEN data.prediction ELSE data.confidence
    ELSE Undefined

\* Mutation of IsBinary: any finite number passes the validation.
IsAnyFinite(prediction) == prediction.k = "fin"

\* Mutation of IsBinary: the test written with || for &&, which rejects
\* every value.
IsNeverBinary(prediction) == prediction.k = "fin" /\ prediction.n = 0 /\ prediction.n = 1

\* !(prediction !== 0 && prediction !== 1)
IsBinary(prediction) == prediction.k = "fin" /\ prediction.n \in {0, 1}

\* Mutation of BackendConfidence: the field is passed on whatever its type.
BackendConfidenceUntyped(data) == Field(data, "confidence")

\* Mutation of BackendConfidence: a missing confidence is replaced by 0.5.
BackendConfidenceDefaulted(data) ==
    IF Field(data, "confidence").t = "number" THEN Field(data, "confidence") ELSE Num(Half)

\* Mutation of BackendConfidence: the field is coerced as the prediction is,
\* Number(data.confidence), when it is present.
BackendConfidenceCoerced(data) ==
    IF Field(data, "confidence") = Undefined THEN Undefined
    ELSE ToNumber(Field(data, "confidence"))

\* typeof data.confidence === "number" ? data.confidence : undefined
BackendConfidence(data) ==
    IF Field(data, "confidence").t = "number" THEN Field(data, "confidence") ELSE Undefined

\* The object returned on the backend path.
BackendResult(data) ==
    [ prediction |-> ToNumber(Field(data, "prediction")).n,
      confidence |-> BackendConfidence(data),
      source     |-> "backend" ]

(* ------------------------------ inputs ---------------------------------- *)

TextPieces ==
    { <<"l","o","v","e"," ">>, <<"B","A","D","!">>, <<"l","o","v","e">>, <<"d">>, <<"!">> }

RECURSIVE TextsUpTo(_)
TextsUpTo(n) ==
    IF n = 0 THEN { <<>> }
    ELSE LET shorter == TextsUpTo(n - 1)
         IN  shorter \cup { t \o p : t \in shorter, p \in TextPieces }

Texts == TextsUpTo(MaxPieces)

Ratings == { Num(n) : n \in 0..MaxRating } \cup { NaN, PosInfinity, NegInfinity }

\* Inputs of the runs of the scorer alone: the texts also hold a digit and a
\* word written with the long s ("U+017F" stands for that one character), the
\* ratings the double next below 3.
ScorerPieces == TextPieces \cup { <<"b","e","U+017F","t">>, <<"9">> }

RECURSIVE ScorerTextsUpTo(_)
ScorerTextsUpTo(n) ==
    IF n = 0 THEN { <<>> }
    ELSE LET shorter == ScorerTextsUpTo(n - 1)
         IN  shorter \cup { t \o p : t \in shorter, p \in ScorerPieces }

ScorerTexts == ScorerTextsUpTo(MaxPieces)

ScorerRatings == Ratings \cup { JustBelow(3) }

\* Values of the prediction field of a response body.
PredictionFields ==
    { Undefined, Null, Num(0), Num(1), Num(2), Str(<<"1">>), Str(<<>>), Str(<<"x">>),
      Bool(TRUE), Arr(<<>>) }

\* Values of the confidence field of a response body (millionths).
ConfidenceFields ==
    { Undefined, Null, Num(900000), Num(1500000), Str(<<"0",".","9">>) }

\* Parsed response bodies: objects, null and a bare number.
Bodies ==
    { [t |-> "object", prediction |-> p, confidence |-> cf] :
          p \in PredictionFields, cf \in ConfidenceFields }
    \cup { Null, Num(1) }

\* How a body read (response.text(), response.json()) ends.
NotRead == [r |-> "unread", v |-> Undefined]

ReadRejects == [r |-> "reject", v |-> Undefined]

ReadHangs == [r |-> "hang", v |-> Undefined]

ReadGives(v) == [r |-> "value", v |-> v]

\* new Error(message)
Error(message) == [name |-> "Error", message |-> message]

\* The TypeError of reading a property of null or undefined.
PropertyReadError == [name |-> "TypeError", message |-> <<"Cannot read properties of null">>]

\* The errors a rejected fetch() and a rejected body read carry.
TransportError == [name |-> "TypeError", message |-> <<"Failed to fetch">>]

BodyReadError == [name |-> "TypeError", message |-> <<"body stream already read">>]

ParseError == [name |-> "SyntaxError", message |-> <<"Unexpected token < in JSON">>]

\* Mutation of HttpError: the body text is dropped from the message.
HttpErrorGeneric(errorText) == Error(<<"Prediction request failed">>)

\* Line 75: new Error(errorText || "Prediction request failed").  A message
\* is a sequence of pieces: the characters of a body text, or a fixed phrase.
HttpError(errorText) ==
    Error(IF errorText # <<>> THEN errorText ELSE <<"Prediction request failed">>)

\* Line 82: new Error("Invalid prediction received from API").
InvalidPredictionError == Error(<<"Invalid prediction received from API">>)

\* Everything the remote side can do to one request: the fetch promise
\* rejects, never settles, or resolves with a response (status 500 or 200)
\* whose body read rejects, never settles or yields a value.
NetOutcomes ==
    { [settle |-> "reject", ok |-> FALSE, status |-> 0, text |-> NotRead, json |-> NotRead],
      [settle |-> "hang",   ok |-> FALSE, status |-> 0, text |-> NotRead, json |-> NotRead] }
    \cup { [settle |-> "resolve", ok |-> FALSE, status |-> 500, text |-> tx, json |-> NotRead] :
               tx \in { ReadRejects, ReadHangs, ReadGives(Str(<<>>)),
                        ReadGives(Str(<<"d","o","w","n">>)) } }
    \cup { [settle |-> "resolve", ok |-> TRUE, status |-> 200, text |-> NotRead, json |-> js] :
               js \in { ReadRejects, ReadHangs } \cup { ReadGives(b) : b \in Bodies } }

(* --------------------------- predictRecommendation ---------------------- *)

VARIABLES
    pc,          \* per invocation: "idle", "fetch", "text", "json", "done", "rejected"
    reviewText,  \* per invocation: the reviewText argument
    rating,      \* per invocation: the rating argument
    net,         \* per invocation: what the remote side does to its request
    result,      \* per invocation: the value its promise resolved to
    fetches,     \* per invocation: number of fetch() calls issued
    toasts,      \* per invocation: number of toast.warning() notices emitted
    request,     \* per invocation: the request handed to fetch()
    logged,      \* per invocation: the error handed to console.error()
    api,         \* the catalog client call in progress, see ApiIdle
    searchQuery,       \* Index: the search box's text
    selectedCategory,  \* Index: the category chosen
    page,              \* Index: the page chosen
    productsData,      \* Index: data, the result on screen (Undefined before the first)
    isFetching         \* Index: the query for the current key is in flight

vars == <<pc, reviewText, rating, net, result, fetches, toasts, request, logged, api,
          searchQuery, selectedCategory, page, productsData, isFetching>>

indexVars == <<searchQuery, selectedCategory, page, productsData, isFetching>>

predictorVars ==
    <<pc, reviewText, rating, net, result, fetches, toasts, request, logged>>

Calls == 1..NumCalls

NoResult == [prediction |-> 0 - 1, confidence |-> Undefined, source |-> "pending"]

NoNet == [settle |-> "none", ok |-> FALSE, status |-> 0, text |-> NotRead, json |-> NotRead]

\* No catalog call has been made: the position of the call ("idle", "fetch",
\* "text", "json", "resolved", "rejected"), the function called and its
\* argument, its request, what the remote side does to it, and what its
\* promise settled with.
ApiIdle ==
    [ pc |-> "idle", fn |-> "none", args |-> Undefined, url |-> Undefined,
      init |-> Undefined, net |-> Undefined, settled |-> Undefined ]

\* Mutation of JsonValue: a number that is not finite is written as it is.
JsonValueRaw(v) == v

\* The value that the JSON text JSON.stringify writes for v denotes: a
\* string and a finite number are themselves, a number that is not finite is
\* written as null.
JsonValue(v) ==
    IF v.t = "number" /\ ~IsFinite(v) THEN Null ELSE v

\* Lines 65-71: fetch(`${API_BASE_URL}/api/predict`, { method, headers, body }).
PredictRequest(text, r) ==
    [ method      |-> "POST",
      path        |-> <<"api", "predict">>,
      contentType |-> "application/json",
      body        |-> [ reviewText |-> JsonValue(Str(text)), rating |-> JsonValue(r) ] ]

Init ==
    /\ pc = [c \in Calls |-> "idle"]
    /\ reviewText = [c \in Calls |-> <<>>]
    /\ rating = [c \in Calls |-> Num(0)]
    /\ net = [c \in Calls |-> NoNet]
    /\ result = [c \in Calls |-> NoResult]
    /\ fetches = [c \in Calls |-> 0]
    /\ toasts = [c \in Calls |-> 0]
    /\ request = [c \in Calls |-> Undefined]
    /\ logged = [c \in Calls |-> Undefined]
    /\ api = ApiIdle
    /\ searchQuery = <<>>
    /\ selectedCategory = "All"
    /\ page = 1
    /\ productsData = Undefined
    /\ isFetching = TRUE

\* Lines 60-71: the call builds the request and issues fetch(); the caller
\* is suspended on the fetch promise.  Invocations are numbered in the order
\* in which they are made.
Invoke(c, text, r, outcome) ==
    /\ pc[c] = "idle"
    /\ \A d \in Calls : d < c => pc[d] # "idle"
    /\ pc' = [pc EXCEPT ![c] = "fetch"]
    /\ reviewText' = [reviewText EXCEPT ![c] = text]
    /\ rating' = [rating EXCEPT ![c] = r]
    /\ net' = [net EXCEPT ![c] = outcome]
    /\ fetches' = [fetches EXCEPT ![c] = @ + 1]
    /\ request' = [request EXCEPT ![c] = PredictRequest(text, r)]
    /\ UNCHANGED <<result, toasts, logged, api, indexVars>>

\* Mutation of CatchBlock: the scorer's token list lives outside the function
\* and is not cleared, so the text of an earlier fallback run is scored again.
CatchBlockAccumulating(c, error) ==
    LET earlier == { d \in DOMAIN pc : d # c /\ pc[d] = "done" /\ result[d].source = "fallback" }
        text == IF earlier = {} THEN reviewText[c]
                ELSE reviewText[CHOOSE d \in earlier : TRUE] \o reviewText[c]
    IN  /\ pc' = [pc EXCEPT ![c] = "done"]
        /\ result' = [result EXCEPT ![c] = FallbackPrediction(text, rating[c])]
        /\ toasts' = [toasts EXCEPT ![c] = @ + 1]
        /\ logged' = [logged EXCEPT ![c] = error]
        /\ UNCHANGED <<reviewText, rating, net, fetches, request, api, indexVars>>

\* Mutation of CatchBlock: one result object is shared by all invocations, so
\* a fallback overwrites the result every settled invocation holds.
CatchBlockShared(c, error) ==
    LET mine == FallbackPrediction(reviewText[c], rating[c])
    IN  /\ pc' = [pc EXCEPT ![c] = "done"]
        /\ result' = [d \in DOMAIN result |->
                         IF d = c \/ pc[d] = "done" THEN mine ELSE result[d]]
        /\ toasts' = [toasts EXCEPT ![c] = @ + 1]
        /\ logged' = [logged EXCEPT ![c] = error]
        /\ UNCHANGED <<reviewText, rating, net, fetches, request, api, indexVars>>

\* Mutation of CatchBlock: a numeric confidence of the response that failed
\* the validation is kept in the fallback result.
CatchBlockLeaking(c, error) ==
    LET mine == FallbackPrediction(reviewText[c], rating[c])
        seen == IF net[c].json.r = "value" THEN Field(net[c].json.v, "confidence") ELSE Undefined
    IN  /\ pc' = [pc EXCEPT ![c] = "done"]
        /\ result' = [result EXCEPT ![c] =
                         IF seen.t = "number" THEN [mine EXCEPT !.confidence = seen] ELSE mine]
        /\ toasts' = [toasts EXCEPT ![c] = @ + 1]
        /\ logged' = [logged EXCEPT ![c] = error]
        /\ UNCHANGED <<reviewText, rating, net, fetches, request, api, indexVars>>

\* Mutation of CatchBlock: the request is issued again instead of falling back.
CatchBlockRetry(c, error) ==
    /\ pc' = [pc EXCEPT ![c] = "fetch"]
    /\ fetches' = [fetches EXCEPT ![c] = IF @ < 3 THEN @ + 1 ELSE @]
    /\ UNCHANGED <<reviewText, rating, net, result, toasts, request, logged, api, indexVars>>

\* Lines 90-96: console.error(..., error), toast.warning, return
\* fallbackPrediction(...).
CatchBlock(c, error) ==
    /\ pc' = [pc EXCEPT ![c] = "done"]
    /\ result' = [result EXCEPT ![c] = FallbackPrediction(reviewText[c], rating[c])]
    /\ toasts' = [toasts EXCEPT ![c] = @ + 1]
    /\ logged' = [logged EXCEPT ![c] = error]
    /\ UNCHANGED <<reviewText, rating, net, fetches, request, api, indexVars>>

\* Mutation of Throw: the failure escapes the function, its promise rejects.
ThrowUncaught(c, error) ==
    /\ pc' = [pc EXCEPT ![c] = "rejected"]
    /\ UNCHANGED <<reviewText, rating, net, result, fetches, toasts, request, logged, api, indexVars>>

\* A rejection or throw inside the try block (lines 64-90) enters the catch.
Throw(c, error) == CatchBlock(c, error)

\* Mutation of ReturnBackend: the notice is emitted on the backend path too.
ReturnBackendNoisy(c, data) ==
    /\ pc' = [pc EXCEPT ![c] = "done"]
    /\ result' = [result EXCEPT ![c] = BackendResult(data)]
    /\ toasts' = [toasts EXCEPT ![c] = @ + 1]
    /\ UNCHANGED <<reviewText, rating, net, fetches, request, logged, api, indexVars>>

\* Mutation of ReturnBackend: the heuristic's class overrides the backend's.
ReturnBackendOverridden(c, data) ==
    /\ pc' = [pc EXCEPT ![c] = "done"]
    /\ result' = [result EXCEPT ![c] =
                     [BackendResult(data) EXCEPT
                        !.prediction = FallbackPrediction(reviewText[c], rating[c]).prediction]]
    /\ UNCHANGED <<reviewText, rating, net, fetches, toasts, request, logged, api, indexVars>>

\* Lines 85-89: the backend result is returned.
ReturnBackend(c, data) ==
    /\ pc' = [pc EXCEPT ![c] = "done"]
    /\ result' = [result EXCEPT ![c] = BackendResult(data)]
    /\ UNCHANGED <<reviewText, rating, net, fetches, toasts, request, logged, api, indexVars>>

\* Lines 65-78: the fetch promise settles.  A rejection is caught; a response
\* that is not ok has its text read (line 74), an ok one its JSON (line 78).
FetchSettled(c) ==
    /\ pc[c] = "fetch"
    /\ \/ /\ net[c].settle = "reject"
          /\ Throw(c, TransportError)
       \/ /\ net[c].settle = "resolve"
          /\ pc' = [pc EXCEPT ![c] = IF net[c].ok THEN "json" ELSE "text"]
          /\ UNCHANGED <<reviewText, rating, net, result, fetches, toasts, request, logged, api, indexVars>>

\* Lines 74-75: response.text() settles; its rejection, or else the Error
\* thrown with the text, is caught.
TextSettled(c) ==
    /\ pc[c] = "text"
    /\ net[c].text.r \in {"reject", "value"}
    /\ IF net[c].text.r = "reject"
       THEN Throw(c, BodyReadError)
       ELSE Throw(c, HttpError(net[c].text.v.s))

\* Lines 78-89: response.json() settles.  A rejection is caught; reading
\* .prediction of a null body throws a TypeError; an invalid prediction
\* throws; otherwise the backend result is returned.
JsonSettled(c) ==
    /\ pc[c] = "json"
    /\ \/ /\ net[c].json.r = "reject"
          /\ Throw(c, ParseError)
       \/ /\ net[c].json.r = "value"
          /\ LET data == net[c].json.v
             IN  IF data.t \in {"null", "undefined"}
                 THEN Throw(c, PropertyReadError)
                 ELSE IF IsBinary(ToNumber(Field(data, "prediction")))
                      THEN ReturnBackend(c, data)
                      ELSE Throw(c, InvalidPredictionError)

\* The continuation of invocation c after the promise it awaits settles.
Resume(c) == FetchSettled(c) \/ TextSettled(c) \/ JsonSettled(c)

(* One invocation over the whole input domain. *)

Next ==
    \/ /\ \A d \in Calls : pc[d] = "idle"
       /\ \E c \in Calls, text \in Texts, r \in Ratings, outcome \in NetOutcomes :
             Invoke(c, text, r, outcome)
    \/ \E c \in Calls : FetchSettled(c)
    \/ \E c \in Calls : TextSettled(c)
    \/ \E c \in Calls : JsonSettled(c)

Spec == Init /\ [][Next]_vars

(* NumCalls invocations in flight at once, over a small input domain. *)

ConcTexts == { <<>>, <<"B","A","D","!">> }

ConcRatings == { Num(1), NaN }

ConcOutcomes ==
    { o \in NetOutcomes :
        \/ o.settle \in {"reject", "hang"}
        \/ o.text = ReadGives(Str(<<>>))
        \/ o.json \in { ReadRejects, ReadHangs }
        \/ o.json \in { ReadGives([t |-> "object", prediction |-> p, confidence |-> Undefined]) :
                          p \in { Num(1), Num(2) } } }

ConcNext ==
    \/ \E c \in Calls :
          /\ pc[c] = "idle"
          /\ \E text \in ConcTexts, r \in ConcRatings, outcome \in ConcOutcomes :
                Invoke(c, text, r, outcome)
    \/ \E c \in Calls : FetchSettled(c)
    \/ \E c \in Calls : TextSettled(c)
    \/ \E c \in Calls : JsonSettled(c)

ConcSpec == Init /\ [][ConcNext]_vars

(* The scorer alone: one invocation whose request is refused, so that the   *)
(* catch block runs fallbackPrediction on the arguments.                    *)

TransportRejects ==
    [settle |-> "reject", ok |-> FALSE, status |-> 0, text |-> NotRead, json |-> NotRead]

ScorerNext ==
    \/ /\ \A d \in Calls : pc[d] = "idle"
       /\ \E c \in Calls, text \in ScorerTexts, r \in ScorerRatings :
             Invoke(c, text, r, TransportRejects)
    \/ \E c \in Calls : FetchSettled(c)

ScorerSpec == Init /\ [][ScorerNext]_vars

(* One invocation, every outcome of the remote side, under the event loop's *)
(* guarantee that the continuation of a settled promise is run.             *)

LiveNext ==
    \/ /\ \A d \in Calls : pc[d] = "idle"
       /\ \E c \in Calls, text \in ConcTexts, r \in ConcRatings, outcome \in NetOutcomes :
             Invoke(c, text, r, outcome)
    \/ \E c \in Calls : FetchSettled(c)
    \/ \E c \in Calls : TextSettled(c)
    \/ \E c \in Calls : JsonSettled(c)

LiveSpec == Init /\ [][LiveNext]_vars /\ \A c \in Calls : WF_vars(Resume(c))

(* ----------------------------- catalog client --------------------------- *)

\* The decimal digits of a natural number.
RECURSIVE NumberToString(_)
NumberToString(n) ==
    IF n < 10 THEN << Digits[n + 1] >>
    ELSE NumberToString(n \div 10) \o << Digits[(n % 10) + 1] >>

\* String(value) for the values a query argument can hold.
JsString(value) ==
    CASE value.t = "string" -> value.s
      [] value.t = "number" /\ value.k = "fin" -> NumberToString(value.n)
      [] value.t = "number" /\ value.k = "nan" -> <<"N","a","N">>
      [] value.t = "null" -> <<"n","u","l","l">>
      [] OTHER -> <<"u","n","d","e","f","i","n","e","d">>

\* Mutation of BuildUrl: the test is written "if (value)", which also drops 0.
BuildUrlTruthy(path, params) ==
    LET Kept(entry) ==
            /\ entry[2] \notin { Undefined, Null, Str(<<>>), Num(0), NaN }
        kept == SelectSeq(params, Kept)
    IN  [ path |-> path,
          searchParams |-> [ i \in 1..Len(kept) |-> << kept[i][1], JsString(kept[i][2]) >> ] ]

\* Lines 5-15: the URL of path under API_BASE_URL; params is the sequence
\* Object.entries(params) of <<key, value>> pairs, <<>> when no params are
\* given.  searchParams.set appends, the keys being distinct.
BuildUrl(path, params) ==
    LET Kept(entry) ==
            /\ entry[2] # Undefined
            /\ entry[2] # Null
            /\ entry[2] # Str(<<>>)
        kept == SelectSeq(params, Kept)
    IN  [ path |-> path,
          searchParams |-> [ i \in 1..Len(kept) |-> << kept[i][1], JsString(kept[i][2]) >> ] ]

\* response.ok
Ok(status) == status \in 200..299

\* Line 20: new Error(message || `Request failed with status ${response.status}`).
\* A message is a sequence of pieces: the characters of a body text, or the
\* fixed phrase followed by the digits of the status.
FailureError(message, status) ==
    Error(IF message # <<>> THEN message
          ELSE <<"Request failed with status ">> \o NumberToString(status))

\* Arguments of fetchProducts.
PageArgs == { Undefined, Null, Num(0), Num(12), Str(<<>>) }

PageSizeArgs == { Undefined, Num(8) }

SearchArgs == { Undefined, Str(<<>>), Str(<<"t","o","p">>) }

CategoryArgs == { Undefined, Null, Str(<<"D","r","e","s","s">>) }

ProductsParams ==
    [ page : PageArgs, pageSize : PageSizeArgs, search : SearchArgs, category : CategoryArgs ]

ProductIds == { <<"7">> }

ReviewPayloads ==
    { [ productId |-> <<"7">>, title |-> <<"o","k">>, reviewText |-> <<"l","o","v","e">>,
        rating |-> Num(5), recommended |-> Num(1) ] }

\* Parsed bodies of the catalog endpoints: an object with or without an
\* items field, and null.
ApiBodies ==
    { [t |-> "object", items |-> Arr(<<>>)], [t |-> "object", items |-> Undefined], Null }

Statuses == { 200, 404, 500 }

\* Everything the remote side can do to one catalog request.
ApiOutcomes ==
    { [settle |-> "reject", error |-> TransportError, status |-> 0, text |-> NotRead, json |-> NotRead],
      [settle |-> "hang", error |-> Undefined, status |-> 0, text |-> NotRead, json |-> NotRead] }
    \cup { [settle |-> "resolve", error |-> Undefined, status |-> st, text |-> tx, json |-> NotRead] :
               st \in { n \in Statuses : ~Ok(n) },
               tx \in { [r |-> "reject", v |-> BodyReadError], ReadHangs, ReadGives(<<>>),
                        ReadGives(<<"d","o","w","n">>) } }
    \cup { [settle |-> "resolve", error |-> Undefined, status |-> st, text |-> NotRead, json |-> js] :
               st \in { n \in Statuses : Ok(n) },
               js \in { [r |-> "reject", v |-> ParseError], ReadHangs }
                      \cup { ReadGives(b) : b \in ApiBodies } }

\* The call issues fetch(url, init) and is suspended on the fetch promise.
ApiCall(fn, args, url, init, outcome) ==
    /\ api.pc = "idle"
    /\ api' = [ pc |-> "fetch", fn |-> fn, args |-> args, url |-> url, init |-> init,
                net |-> outcome, settled |-> Undefined ]
    /\ UNCHANGED <<predictorVars, indexVars>>

\* Lines 25-42.
FetchProducts(params, outcome) ==
    ApiCall("fetchProducts", params,
            BuildUrl(<<"api", "products">>,
                     << <<"page", params.page>>, <<"page_size", params.pageSize>>,
                        <<"search", params.search>>, <<"category", params.category>> >>),
            Undefined, outcome)

\* Lines 44-48.
FetchProductDetail(productId, outcome) ==
    ApiCall("fetchProductDetail", productId, BuildUrl(<<"api", "products", productId>>, <<>>),
            Undefined, outcome)

\* Lines 59-70: the body sent is the JSON text of the payload.
SubmitReview(payload, outcome) ==
    ApiCall("submitReview", payload, BuildUrl(<<"api", "reviews">>, <<>>),
            [method |-> "POST", contentType |-> "application/json", bodyJsonOf |-> payload],
            outcome)

\* Lines 72-74.
FetchProductOptions(outcome) ==
    ApiCall("fetchProductOptions", Undefined, BuildUrl(<<"api", "products", "options">>, <<>>),
            Undefined, outcome)

\* The promise of the call rejects with error.
ApiReject(error) ==
    /\ api' = [api EXCEPT !.pc = "rejected", !.settled = error]
    /\ UNCHANGED <<predictorVars, indexVars>>

\* The promise of the call resolves with value.
ApiResolve(value) ==
    /\ api' = [api EXCEPT !.pc = "resolved", !.settled = value]
    /\ UNCHANGED <<predictorVars, indexVars>>

\* Mutation of HandleNotOk: a failure status resolves with an empty default.
HandleNotOkSwallowed(message, status) == ApiResolve(Undefined)

\* Lines 18-21: the text of a response that is not ok has been read.
HandleNotOk(message, status) == ApiReject(FailureError(message, status))

\* A rejection awaited outside any try block rejects the caller's promise
\* with the same error.
Propagate(error) == ApiReject(error)

\* The fetch promise settles (lines 40, 46, 61, 74); handleResponse starts
\* reading the text of a response that is not ok, the JSON of an ok one.
ApiFetchSettled ==
    /\ api.pc = "fetch"
    /\ \/ /\ api.net.settle = "reject"
          /\ Propagate(api.net.error)
       \/ /\ api.net.settle = "resolve"
          /\ api' = [api EXCEPT !.pc = IF Ok(api.net.status) THEN "json" ELSE "text"]
          /\ UNCHANGED <<predictorVars, indexVars>>

\* Lines 19-20: response.text() settles.
ApiTextSettled ==
    /\ api.pc = "text"
    /\ \/ /\ api.net.text.r = "reject"
          /\ Propagate(api.net.text.v)
       \/ /\ api.net.text.r = "value"
          /\ HandleNotOk(api.net.text.v, api.net.status)

\* Line 22: response.json() settles; fetchProductOptions then reads
\* data.items (lines 75-76), the others return the body.
ApiJsonSettled ==
    /\ api.pc = "json"
    /\ \/ /\ api.net.json.r = "reject"
          /\ Propagate(api.net.json.v)
       \/ /\ api.net.json.r = "value"
          /\ LET data == api.net.json.v
             IN  IF api.fn # "fetchProductOptions" THEN ApiResolve(data)
                 ELSE IF data.t \in {"null", "undefined"} THEN ApiReject(PropertyReadError)
                 ELSE ApiResolve(data.items)

ApiNext ==
    \/ \E params \in ProductsParams, outcome \in ApiOutcomes : FetchProducts(params, outcome)
    \/ \E productId \in ProductIds, outcome \in ApiOutcomes : FetchProductDetail(productId, outcome)
    \/ \E payload \in ReviewPayloads, outcome \in ApiOutcomes : SubmitReview(payload, outcome)
    \/ \E outcome \in ApiOutcomes : FetchProductOptions(outcome)
    \/ ApiFetchSettled
    \/ ApiTextSettled
    \/ ApiJsonSettled

ApiSpec == Init /\ [][ApiNext]_vars

(* ------------------------------ Index page ------------------------------ *)

\* Line 24.
pageSize == 12

\* The texts typed into the search box and the categories of the catalog.
Searches == { <<>>, <<"t","o","p">>, <<"t","o","p"," ">> }

Categories == { "Dresses" }

\* The backend, which is not part of these sources: the whole catalog has
\* MaxPages pages, a result set filtered by a search or by a category one
\* fewer, one filtered by both a single page; a page beyond the last holds no
\* item.
TotalPagesOf(search, category) ==
    IF search = <<>> /\ category = Undefined THEN MaxPages
    ELSE IF search = <<>> \/ category = Undefined THEN MaxPages - 1
    ELSE 1

\* Lines 28-34: the ProductsResponse that the query function resolves with for
\* the state (p, query, category): search is query.trim() || undefined and
\* category is undefined for "All"; items is the number of items listed.
ProductsOf(p, query, category) ==
    LET search == Trim(query)
        cat == IF category = "All" THEN Undefined ELSE Str(category)
        total == TotalPagesOf(search, cat)
    IN  [ search |-> search, category |-> category, page |-> p,
          items |-> IF p <= total THEN pageSize ELSE 0,
          totalPages |-> total,
          availableCategories |-> Categories ]

\* Line 44: data?.totalPages ?? 1.
totalPages == IF productsData = Undefined THEN 1 ELSE productsData.totalPages

\* Line 42: (data?.items ?? []).length
ItemsLength == IF productsData = Undefined THEN 0 ELSE productsData.items

\* Lines 38-40.
categories == IF productsData = Undefined THEN {} ELSE productsData.availableCategories

\* Lines 82-113: the pagination controls are rendered.
PaginationShown == productsData # Undefined /\ ItemsLength # 0 /\ totalPages > 1

\* The state setters of one event take effect together; useQuery (lines
\* 26-36) then observes the new key: with keepPreviousData the result on
\* screen stays until the query of the new key completes.
SetState(query, category, p) ==
    /\ searchQuery' = query
    /\ selectedCategory' = category
    /\ page' = p
    /\ isFetching' = IF <<query, category, p>> # <<searchQuery, selectedCategory, page>>
                     THEN TRUE ELSE isFetching
    /\ UNCHANGED <<productsData, predictorVars, api>>

\* Mutation of OnSearchChange: the page is kept.
OnSearchChangeKeepingPage(value) ==
    /\ value # searchQuery
    /\ SetState(value, selectedCategory, page)

\* Lines 51-54: the text of the search box changes.
OnSearchChange(value) ==
    /\ value # searchQuery
    /\ SetState(value, selectedCategory, 1)

\* Lines 59-62 and CategoryFilter: a category button is clicked, "All Items"
\* or one of the categories listed.
OnCategoryChange(category) ==
    /\ category = "All" \/ category \in categories
    /\ SetState(searchQuery, category, 1)

\* Lines 118-127.
PreviousClick ==
    /\ PaginationShown
    /\ SetState(searchQuery, selectedCategory, IF page > 1 THEN page - 1 ELSE page)

\* Lines 129-145.
PageLinkClick(pageNumber) ==
    /\ PaginationShown
    /\ pageNumber \in 1..totalPages
    /\ SetState(searchQuery, selectedCategory, pageNumber)

\* Lines 147-157.
NextClick ==
    /\ PaginationShown
    /\ SetState(searchQuery, selectedCategory, IF page < totalPages THEN page + 1 ELSE page)

\* The query of the current key completes and its result is put on screen.
QueryCompletes ==
    /\ isFetching
    /\ productsData' = ProductsOf(page, searchQuery, selectedCategory)
    /\ isFetching' = FALSE
    /\ UNCHANGED <<searchQuery, selectedCategory, page, predictorVars, api>>

IndexNext ==
    \/ \E value \in Searches : OnSearchChange(value)
    \/ \E category \in Categories \cup {"All"} : OnCategoryChange(category)
    \/ PreviousClick
    \/ \E pageNumber \in 1..MaxPages : PageLinkClick(pageNumber)
    \/ NextClick
    \/ QueryCompletes

IndexSpec == Init /\ [][IndexNext]_vars

(* ------------------------------ properties ------------------------------ *)

InFlight(c) == pc[c] \in {"fetch", "text", "json"}

Settled(c) == pc[c] \in {"done", "rejected"}

\* How the promise invocation c is suspended on ends.
Awaited(c) ==
    CASE pc[c] = "fetch" -> net[c].settle
      [] pc[c] = "text"  -> net[c].text.r
      [] pc[c] = "json"  -> net[c].json.r
      [] OTHER           -> "none"

\* The request of invocation c meets a promise that never settles.
NeverSettles(o) == o.settle = "hang" \/ o.text.r = "hang" \/ o.json.r = "hang"

\* The value the prediction field of a parsed body coerces to.
Coerced(o) == ToNumber(Field(o.json.v, "prediction"))

\* The four failure kinds of the remote attempt: transport rejection,
\* non-success status, unparseable body, invalid prediction value.
TransportFailure(o) == o.settle = "reject"

HttpFailure(o) == o.settle = "resolve" /\ ~o.ok /\ o.text.r \in {"reject", "value"}

MalformedBody(o) == o.settle = "resolve" /\ o.ok /\ o.json.r = "reject"

InvalidValue(o) ==
    /\ o.settle = "resolve" /\ o.ok /\ o.json.r = "value"
    /\ Coerced(o) \notin { Num(0), Num(1) }

RemoteFailure(o) ==
    TransportFailure(o) \/ HttpFailure(o) \/ MalformedBody(o) \/ InvalidValue(o)

RemoteSuccess(o) ==
    /\ o.settle = "resolve" /\ o.ok /\ o.json.r = "value"
    /\ Coerced(o) \in { Num(0), Num(1) }

\* A confidence in (0, 1].
InUnitRange(x) == x.t = "number" /\ x.k = "fin" /\ 0 < x.n /\ x.n <= One

\* C1: predictRecommendation never rejects or throws: whatever the text, the
\* rating and the outcome of the remote call, the promise is never rejected,
\* an invocation is suspended only on a promise of its request (the fetch or
\* the body read it asked for), and a settled invocation holds a result
\* tagged "backend" or "fallback".
C1_NeverRejects ==
    \A c \in Calls :
        /\ pc[c] # "rejected"
        /\ InFlight(c) => Awaited(c) \in {"reject", "resolve", "value", "hang"}
        /\ pc[c] = "done" =>
              /\ result[c].source \in {"backend", "fallback"}
              /\ result[c].prediction \in Int

\* C1 witness: empty text, NaN rating and a body that is no object (null)
\* resolved to a result.
C1_Witness ==
    \E c \in Calls :
        /\ pc[c] = "done" /\ reviewText[c] = <<>> /\ rating[c] = NaN
        /\ net[c].json = ReadGives(Null)
        /\ result[c].source = "fallback"

\* C2: failover: after any of the four remote failure kinds the result is
\* exactly fallbackPrediction(reviewText, rating), tagged "fallback", and the
\* failure does not reach the caller.
C2_Failover ==
    \A c \in Calls :
        RemoteFailure(net[c]) =>
            /\ pc[c] # "rejected"
            /\ pc[c] = "done" =>
                  /\ result[c] = FallbackPrediction(reviewText[c], rating[c])
                  /\ result[c].source = "fallback"

\* C2 witness: an invalid prediction value (2) ended in the fallback result.
C2_Witness ==
    \E c \in Calls :
        /\ pc[c] = "done" /\ InvalidValue(net[c]) /\ Coerced(net[c]) = Num(2)
        /\ result[c].source = "fallback"

\* C3: backend pass-through: when the remote call succeeds with prediction 0
\* or 1 the result is tagged "backend", carries that prediction and, when the
\* response's confidence is a number, that confidence.
C3_BackendPassThrough ==
    \A c \in Calls :
        (pc[c] = "done" /\ RemoteSuccess(net[c])) =>
            /\ result[c].source = "backend"
            /\ Num(result[c].prediction) = Coerced(net[c])
            /\ Field(net[c].json.v, "confidence").t = "number" =>
                  result[c].confidence = Field(net[c].json.v, "confidence")

\* C3 witness: a backend result whose class is the opposite of the one the
\* local heuristic gives for the same input.
C3_Witness ==
    \E c \in Calls :
        /\ pc[c] = "done" /\ result[c].source = "backend"
        /\ result[c].confidence = Num(900000)
        /\ FallbackPrediction(reviewText[c], rating[c]).prediction # result[c].prediction

\* C4: response validation: for an ok response with a parsed body the result
\* is tagged "backend" exactly when the coerced prediction is 0 or 1 (and
\* then carries it as a number), and is tagged "fallback" otherwise.
C4_Validation ==
    \A c \in Calls :
        (pc[c] = "done" /\ net[c].ok /\ net[c].json.r = "value") =>
            /\ result[c].source = "backend" <=> Coerced(net[c]) \in { Num(0), Num(1) }
            /\ result[c].source = "backend" => Num(result[c].prediction) = Coerced(net[c])
            /\ result[c].source # "backend" => result[c].source = "fallback"

\* C4 witness: the numeric string "1" was accepted and returned as the number 1.
C4_Witness ==
    \E c \in Calls :
        /\ pc[c] = "done"
        /\ Field(net[c].json.v, "prediction") = Str(<<"1">>)
        /\ result[c].source = "backend" /\ result[c].prediction = 1

\* C5 (as claimed): every invocation eventually reaches a terminal state.
C5_AlwaysCompletes ==
    \A c \in Calls : (pc[c] # "idle") ~> (pc[c] = "done")

\* C5 (amended): every invocation whose request settles, that is whose fetch
\* promise and body read do not stay pending forever, eventually reaches
\* Done:backend or Done:fallback.
C5_CompletesWhenSettled ==
    \A c \in Calls :
        (pc[c] # "idle" /\ ~NeverSettles(net[c]))
            ~> (pc[c] = "done" /\ result[c].source \in {"backend", "fallback"})

\* C5 witness: the service is down (the fetch promise rejected) and the
\* invocation is in Done:fallback.
C5_Witness ==
    \E c \in Calls :
        pc[c] = "done" /\ TransportFailure(net[c]) /\ result[c].source = "fallback"

\* C6: single attempt: an invocation has issued exactly one fetch() from the
\* moment it is made, also after the request or its validation failed and
\* after the fallback ran.
C6_SingleAttempt ==
    \A c \in Calls :
        fetches[c] = IF pc[c] = "idle" THEN 0 ELSE 1

\* C6 witness: a failed validation fell back with one request issued.
C6_Witness ==
    \E c \in Calls :
        /\ pc[c] = "done" /\ InvalidValue(net[c])
        /\ result[c].source = "fallback" /\ fetches[c] = 1

\* C7 (as claimed): every result has prediction in {0,1}, a source tag and a
\* confidence that is absent or a number in (0,1].
C7_WellFormed ==
    \A c \in Calls :
        pc[c] = "done" =>
            /\ result[c].prediction \in {0, 1}
            /\ result[c].source \in {"backend", "fallback"}
            /\ result[c].confidence = Undefined \/ InUnitRange(result[c].confidence)

\* C7 (amended): every result has prediction in {0,1}, a source tag and a
\* confidence that is absent or a number; the number is in (0,1] on the
\* fallback path, and on the backend path it is the response's own numeric
\* confidence, which the code does not range-check.
C7_WellFormedUpToBackendConfidence ==
    \A c \in Calls :
        pc[c] = "done" =>
            /\ result[c].prediction \in {0, 1}
            /\ result[c].source \in {"backend", "fallback"}
            /\ result[c].confidence = Undefined \/ result[c].confidence.t = "number"
            /\ result[c].source = "fallback" => InUnitRange(result[c].confidence)
            /\ result[c].source = "backend" =>
                  \/ result[c].confidence = Undefined
                  \/ result[c].confidence = Field(net[c].json.v, "confidence")

\* C7 witness: a backend result carrying the response's confidence 1.5.
C7_Witness ==
    \E c \in Calls :
        /\ pc[c] = "done" /\ result[c].source = "backend"
        /\ result[c].confidence = Num(1500000)

\* C8: a fallback result always carries a confidence in (0,1]; a backend
\* result has no confidence when the response omits the field.
C8_ConfidencePresence ==
    \A c \in Calls :
        pc[c] = "done" =>
            /\ result[c].source = "fallback" => InUnitRange(result[c].confidence)
            /\ (result[c].source = "backend"
                  /\ Field(net[c].json.v, "confidence") = Undefined)
                  => result[c].confidence = Undefined

\* C8 witness: a backend result without confidence, from a response that
\* omits the field.
C8_Witness ==
    \E c \in Calls :
        /\ pc[c] = "done" /\ result[c].source = "backend"
        /\ Field(net[c].json.v, "confidence") = Undefined
        /\ result[c].confidence = Undefined

RECURSIVE SumOver(_, _)
SumOver(f, S) ==
    IF S = {} THEN 0
    ELSE LET x == CHOOSE y \in S : TRUE IN f[x] + SumOver(f, S \ {x})

FallbackResults == { c \in Calls : pc[c] = "done" /\ result[c].source = "fallback" }

\* C9: fallback notice: an invocation has emitted exactly one notice once it
\* holds a fallback result, whose remote attempt has then failed, and none
\* before that or when it holds a backend result; over all invocations the
\* notices number as many as the fallback results.
C9_FallbackNotice ==
    /\ \A c \in Calls :
          /\ toasts[c] = IF c \in FallbackResults THEN 1 ELSE 0
          /\ toasts[c] = 1 => ~RemoteSuccess(net[c])
    /\ SumOver(toasts, Calls) = Cardinality(FallbackResults)

\* C9 witness: two invocations settled, one from the backend without a
\* notice and one by fallback with its notice.
C9_Witness ==
    \E c, d \in Calls :
        /\ pc[c] = "done" /\ result[c].source = "backend" /\ toasts[c] = 0
        /\ pc[d] = "done" /\ result[d].source = "fallback" /\ toasts[d] = 1

\* C10: fallback totality: for every input the scorer was run on, including
\* empty and punctuation-only text and a NaN or infinite rating, its result
\* has prediction in {0,1}, a confidence that is a number (not undefined,
\* not NaN) and the source "fallback".
C10_FallbackTotal ==
    \A c \in Calls :
        (Settled(c) /\ ~RemoteSuccess(net[c])) =>
            /\ pc[c] = "done"
            /\ result[c].prediction \in {0, 1}
            /\ IsFinite(result[c].confidence)
            /\ result[c].source = "fallback"

\* C10 witness: punctuation-only text with a non-finite rating was scored.
C10_Witness ==
    \E c \in Calls :
        /\ pc[c] = "done" /\ result[c].source = "fallback"
        /\ reviewText[c] = <<"!", "!">> /\ rating[c] = NegInfinity
        /\ result[c].prediction = 1 /\ result[c].confidence = Num(Half)

\* C11: fallback determinism: two invocations that ran the scorer on the same
\* (reviewText, rating) hold the same prediction and confidence, whatever the
\* other invocation did before or in between.
C11_FallbackDeterministic ==
    \A c, d \in Calls :
        ( /\ c \in FallbackResults /\ d \in FallbackResults
          /\ reviewText[c] = reviewText[d] /\ rating[c] = rating[d] )
        => /\ result[c].prediction = result[d].prediction
           /\ result[c].confidence = result[d].confidence

\* C11 witness: two fallback runs on the same negative text and rating, set
\* off by different failures of the remote side.
C11_Witness ==
    \E c, d \in Calls :
        /\ c # d /\ c \in FallbackResults /\ d \in FallbackResults
        /\ reviewText[c] = <<"B","A","D","!">> /\ reviewText[d] = reviewText[c]
        /\ rating[c] = Num(1) /\ rating[d] = Num(1)
        /\ TransportFailure(net[c]) /\ InvalidValue(net[d])
        /\ result[c] = result[d]

\* What an invocation returns when it runs alone: a function of its own
\* arguments and of the outcome of its own request.
Alone(text, r, o) ==
    IF RemoteSuccess(o) THEN BackendResult(o.json.v) ELSE FallbackPrediction(text, r)

\* C12: independence of concurrent invocations: under every interleaving a
\* settled invocation holds the result it would return alone for its own
\* arguments and its own request's outcome, and an invocation not yet settled
\* holds none; no step of another invocation changes it.
C12_Independent ==
    \A c \in Calls :
        result[c] = IF pc[c] = "done"
                    THEN Alone(reviewText[c], rating[c], net[c])
                    ELSE NoResult

\* C12 witness: the invocation made second has fallen back while the one
\* made first, with other arguments and a valid response on its way, is still
\* awaiting its response body.
C12_Witness ==
    \E c, d \in Calls :
        /\ c < d /\ pc[c] = "json" /\ d \in FallbackResults
        /\ reviewText[c] # reviewText[d] /\ rating[c] # rating[d]
        /\ RemoteSuccess(net[c])

\* The promise of the catalog call has settled.
ApiSettled == api.pc \in {"resolved", "rejected"}

\* The value of key in the URL's query, Undefined when the key is absent.
SearchParam(url, key) ==
    IF \E i \in DOMAIN url.searchParams : url.searchParams[i][1] = key
    THEN Str(url.searchParams[CHOOSE i \in DOMAIN url.searchParams :
                                  url.searchParams[i][1] = key][2])
    ELSE Undefined

\* s occurs in message as a run of consecutive pieces.
Contains(message, s) ==
    \E i \in 0..Len(message) :
        i + Len(s) <= Len(message) /\ SubSeq(message, i + 1, i + Len(s)) = s

\* C13: each of the four catalog calls whose response status is not OK
\* rejects, never resolves: once the body text is read, with an Error whose
\* message is that text or, when the text is empty, a message containing the
\* status code; and the error of a rejected fetch, of a rejected body read or
\* of a JSON parse failure is the very error the caller's promise rejects with.
C13_ErrorPropagation ==
    LET o == api.net
    IN  /\ (api.pc # "idle" /\ o.settle = "resolve" /\ ~Ok(o.status))
               => /\ api.pc # "resolved"
                  /\ api.pc \notin {"json"}
                  /\ (ApiSettled /\ o.text.r = "value")
                        => /\ api.pc = "rejected"
                           /\ api.settled.name = "Error"
                           /\ IF o.text.v # <<>>
                              THEN api.settled.message = o.text.v
                              ELSE Contains(api.settled.message, NumberToString(o.status))
                  /\ (ApiSettled /\ o.text.r = "reject") => api.settled = o.text.v
        /\ (ApiSettled /\ o.settle = "reject")
               => api.pc = "rejected" /\ api.settled = o.error
        /\ (ApiSettled /\ o.settle = "resolve" /\ Ok(o.status) /\ o.json.r = "reject")
               => api.pc = "rejected" /\ api.settled = o.json.v

\* C13 witness: fetchProductOptions has rejected on a 500 response with an
\* empty body, with the message naming the status.
C13_Witness ==
    /\ api.fn = "fetchProductOptions"
    /\ api.pc = "rejected"
    /\ api.net.settle = "resolve"
    /\ api.net.status = 500
    /\ api.net.text = ReadGives(<<>>)
    /\ api.settled = Error(<<"Request failed with status ", "5", "0", "0">>)

\* The argument of fetchProducts that the query key carries.
ArgumentOf(params, key) ==
    CASE key = "page" -> params.page
      [] key = "page_size" -> params.pageSize
      [] key = "search" -> params.search
      [] key = "category" -> params.category

QueryKeys == {"page", "page_size", "search", "category"}

\* C14 witness: fetchProducts was called with page 0, an empty search and a
\* null category, and requested a URL whose query is page=0 alone.
C14_Witness ==
    /\ api.fn = "fetchProducts"
    /\ api.args = [ page |-> Num(0), pageSize |-> Undefined, search |-> Str(<<>>),
                    category |-> Null ]
    /\ api.url.searchParams = << <<"page", <<"0">> >> >>

\* C14: the URL requested by fetchProducts holds each of page, page_size,
\* search and category exactly when the argument is neither undefined, null
\* nor the empty string, holds it once, and then with the argument's string
\* value; it holds no other parameter.
C14_QueryParameters ==
    api.fn = "fetchProducts" =>
        LET params == api.args
        IN  /\ \A key \in QueryKeys :
                  LET arg == ArgumentOf(params, key)
                  IN  IF arg \in { Undefined, Null, Str(<<>>) }
                      THEN SearchParam(api.url, key) = Undefined
                      ELSE /\ SearchParam(api.url, key) = Str(JsString(arg))
                           /\ Cardinality({ i \in DOMAIN api.url.searchParams :
                                               api.url.searchParams[i][1] = key }) = 1
            /\ \A i \in DOMAIN api.url.searchParams : api.url.searchParams[i][1] \in QueryKeys

(* ------------------------ properties of the scorer ---------------------- *)

\* a < b on JavaScript numbers of one unit (false when either is NaN).
JsLess(a, b) ==
    IF a.k = "nan" \/ b.k = "nan" THEN FALSE
    ELSE IF a.k = "ninf" THEN b.k # "ninf"
    ELSE IF a.k = "inf" \/ b.k = "ninf" THEN FALSE
    ELSE IF b.k = "inf" THEN TRUE
    ELSE a.n < b.n \/ (a.n = b.n /\ a.k = "below" /\ b.k = "fin")

\* The keyword balance positiveScore - negativeScore of a text.
Balance(text) == PositiveScore(text) - NegativeScore(text)

\* Three times the real number positiveScore - negativeScore +
\* ratingAdjustment, to the nearest integer, ratingAdjustment being
\* (rating - 3) / 1.5 for a finite rating and 0 otherwise.
ScoreThirds(text, r) == 3 * Balance(text) + (IF IsFinite(r) THEN 2 * (r.n - 3) ELSE 0)

\* That real number is negative, respectively zero.
ScoreNegative(text, r) ==
    ScoreThirds(text, r) < 0 \/ (ScoreThirds(text, r) = 0 /\ r.k = "below")

ScoreZero(text, r) == ScoreThirds(text, r) = 0 /\ r.k # "below"

\* The score is negative by less than the rounding of double arithmetic.
ScoreBarelyNegative(text, r) == ScoreThirds(text, r) = 0 /\ r.k = "below"

\* C15 as stated: the scorer returns prediction 1 exactly when totalScore >= 0
\* and prediction 0 exactly when totalScore < 0.
C15_DecisionRule ==
    \A c \in FallbackResults :
        result[c].prediction = IF ScoreNegative(reviewText[c], rating[c]) THEN 0 ELSE 1

\* C15 amended: the scorer returns prediction 1 when totalScore >= 0, exact
\* zero included, and also when totalScore is negative by so little that the
\* probability evaluates to 0.5 in double arithmetic; it returns prediction 0
\* for every other negative totalScore.
C15_DecisionRuleUpToRounding ==
    \A c \in FallbackResults :
        LET text == reviewText[c]
            r == rating[c]
        IN  /\ result[c].prediction \in {0, 1}
            /\ ~ScoreNegative(text, r) => result[c].prediction = 1
            /\ ScoreBarelyNegative(text, r) => result[c].prediction = 1
            /\ (ScoreNegative(text, r) /\ ~ScoreBarelyNegative(text, r))
                  => result[c].prediction = 0

\* C15 witness: empty text with the rating next below 3, a negative
\* totalScore, was scored as prediction 1.
C15_Witness ==
    \E c \in FallbackResults :
        /\ reviewText[c] = <<>>
        /\ rating[c] = JustBelow(3)
        /\ ScoreNegative(reviewText[c], rating[c])
        /\ result[c].prediction = 1

ScoreLeq(a, b) == a = b \/ JsLess(a, b)

\* C17 as stated: for the text and rating r1 of a scored review and any
\* rating r2 of the scorer's input domain with r1 < r2, totalScore(text, r1)
\* is at most totalScore(text, r2).
C17_RatingMonotone ==
    \A c \in FallbackResults :
        \A r2 \in ScorerRatings :
            JsLess(rating[c], r2)
                => ScoreLeq(TotalScore(reviewText[c], rating[c]), TotalScore(reviewText[c], r2))

\* C17 amended: the same for finite ratings r1 < r2.
C17_FiniteRatingMonotone ==
    \A c \in FallbackResults :
        \A r2 \in ScorerRatings :
            (IsFinite(rating[c]) /\ IsFinite(r2) /\ JsLess(rating[c], r2))
                => ScoreLeq(TotalScore(reviewText[c], rating[c]), TotalScore(reviewText[c], r2))

\* C17 witness: a negative review rated 2 was scored, and its totalScore is
\* strictly below the one the same text has with the rating next below 3.
C17_Witness ==
    \E c \in FallbackResults :
        /\ reviewText[c] = <<"B","A","D","!">>
        /\ rating[c] = Num(2)
        /\ JsLess(rating[c], JustBelow(3))
        /\ JsLess(TotalScore(reviewText[c], rating[c]), TotalScore(reviewText[c], JustBelow(3)))

\* The positions of the token list of text that hold a word of lexicon.
Occurrences(text, lexicon) ==
    { i \in DOMAIN Tokens(text) : Tokens(text)[i] \in lexicon }

\* C18: for every scored text positiveScore is the number of token positions
\* holding a positive word and negativeScore the number holding a negative
\* word, repetitions counted, and the prediction is the one that balance of
\* occurrences gives with the rating adjustment.
C18_PerOccurrence ==
    \A c \in FallbackResults :
        LET text == reviewText[c]
            positives == Cardinality(Occurrences(text, FALLBACK_POSITIVE_WORDS))
            negatives == Cardinality(Occurrences(text, FALLBACK_NEGATIVE_WORDS))
            adjustment == IF IsFinite(rating[c]) THEN 2 * (rating[c].n - 3) ELSE 0
        IN  /\ PositiveScore(text) = positives
            /\ NegativeScore(text) = negatives
            /\ result[c].prediction = IF 3 * (positives - negatives) + adjustment < 0 THEN 0 ELSE 1

\* C18 witness: a text holding "love" twice was scored with positiveScore 2.
C18_Witness ==
    \E c \in FallbackResults :
        /\ reviewText[c] = <<"l","o","v","e"," ","l","o","v","e"," ">>
        /\ Cardinality(Occurrences(reviewText[c], FALLBACK_POSITIVE_WORDS)) = 2
        /\ PositiveScore(reviewText[c]) = 2

\* String.prototype.toUpperCase on one character: a lower-case ASCII letter
\* becomes its upper-case letter, the long s becomes "S".
UpperChar(ch) ==
    IF \E i \in DOMAIN LowerLetters : LowerLetters[i] = ch
    THEN UpperLetters[CHOOSE i \in DOMAIN LowerLetters : LowerLetters[i] = ch]
    ELSE IF ch = "U+017F" THEN "S"
    ELSE ch

ToUpperCase(s) == [i \in DOMAIN s |-> UpperChar(s[i])]

\* The verdict of the scorer: (prediction, confidence).
Verdict(text, r) ==
    << FallbackPrediction(text, r).prediction, FallbackPrediction(text, r).confidence >>

\* No character of s lies outside ASCII.
IsAsciiText(s) == \A i \in DOMAIN s : s[i] # "U+017F"

\* C19 as stated: for every scored text and rating the scorer gives the same
\* (prediction, confidence) to the upper-cased and to the lower-cased text.
C19_CaseInsensitive ==
    \A c \in FallbackResults :
        /\ Verdict(ToUpperCase(reviewText[c]), rating[c])
              = << result[c].prediction, result[c].confidence >>
        /\ Verdict(ToLowerCase(reviewText[c]), rating[c])
              = << result[c].prediction, result[c].confidence >>

\* C19 amended: the same for every scored text of ASCII characters.
C19_AsciiCaseInsensitive ==
    \A c \in FallbackResults :
        IsAsciiText(reviewText[c]) =>
            /\ Verdict(ToUpperCase(reviewText[c]), rating[c])
                  = << result[c].prediction, result[c].confidence >>
            /\ Verdict(ToLowerCase(reviewText[c]), rating[c])
                  = << result[c].prediction, result[c].confidence >>

\* C19 witness: "love BAD!", of mixed case, was scored, and its upper-cased
\* form differs from it and from its lower-cased form.
C19_Witness ==
    \E c \in FallbackResults :
        /\ reviewText[c] = <<"l","o","v","e"," ","B","A","D","!">>
        /\ ToUpperCase(reviewText[c]) = <<"L","O","V","E"," ","B","A","D","!">>
        /\ rating[c] = Num(3)
        /\ result[c].confidence = Num(Half)

\* The text holds no lexicon token.
Neutral(text) == PositiveScore(text) = 0 /\ NegativeScore(text) = 0

\* C20 as stated: for a text without lexicon token the prediction is 1 if the
\* rating is >= 3 or not finite and 0 if it is finite and < 3; for rating 3
\* or a rating that is not finite the confidence is exactly 0.5.
C20_RatingDecides ==
    \A c \in FallbackResults :
        Neutral(reviewText[c]) =>
            LET r == rating[c]
            IN  /\ (~IsFinite(r) \/ ~JsLess(r, Num(3))) => result[c].prediction = 1
                /\ (IsFinite(r) /\ JsLess(r, Num(3))) => result[c].prediction = 0
                /\ (~IsFinite(r) \/ r = Num(3)) => result[c].confidence = Num(Half)

\* C20 amended: as stated, except that the rating next below 3 is scored as
\* rating 3 is: prediction 1 with confidence exactly 0.5.
C20_RatingDecidesUpToRounding ==
    \A c \in FallbackResults :
        Neutral(reviewText[c]) =>
            LET r == rating[c]
            IN  /\ (~IsFinite(r) \/ ~JsLess(r, Num(3))) => result[c].prediction = 1
                /\ (IsFinite(r) /\ JsLess(r, Num(3)) /\ r # JustBelow(3))
                      => result[c].prediction = 0 /\ JsLess(Num(Half), result[c].confidence)
                /\ (~IsFinite(r) \/ r = Num(3) \/ r = JustBelow(3))
                      => result[c].prediction = 1 /\ result[c].confidence = Num(Half)

\* C20 witness: a text without lexicon token rated 2 was scored 0.
C20_Witness ==
    \E c \in FallbackResults :
        /\ reviewText[c] = <<"d">>
        /\ Neutral(reviewText[c])
        /\ rating[c] = Num(2)
        /\ result[c].prediction = 0

\* The alphanumeric characters of a lower-cased text.
AlphaNumeric == Range(LowerLetters) \cup Range(Digits)

\* The maximal runs of alphanumeric characters of s, as <<first, last>>
\* positions.
MaximalRuns(s) ==
    { run \in (DOMAIN s) \X (DOMAIN s) :
        /\ run[1] <= run[2]
        /\ \A k \in run[1]..run[2] : s[k] \in AlphaNumeric
        /\ run[1] = 1 \/ s[run[1] - 1] \notin AlphaNumeric
        /\ run[2] = Len(s) \/ s[run[2] + 1] \notin AlphaNumeric }

\* C21: the tokens of every scored text are the maximal runs of alphanumeric
\* characters of the lower-cased text, from left to right; positiveScore and
\* negativeScore count the runs that are, as a whole, a lexicon word; and a
\* text none of whose runs is a lexicon word, a text without any run
\* included, is scored as the empty text is.
C21_WordBoundary ==
    \A c \in FallbackResults :
        LET s == [i \in DOMAIN reviewText[c] |-> LowerChar(reviewText[c][i])]
            runs == MaximalRuns(s)
            Word(run) == SubSeq(s, run[1], run[2])
            tokens == Tokens(reviewText[c])
        IN  /\ Len(tokens) = Cardinality(runs)
            /\ \A run \in runs :
                  tokens[Cardinality({ other \in runs : other[1] <= run[1] })] = Word(run)
            /\ PositiveScore(reviewText[c])
                  = Cardinality({ run \in runs : Word(run) \in FALLBACK_POSITIVE_WORDS })
            /\ NegativeScore(reviewText[c])
                  = Cardinality({ run \in runs : Word(run) \in FALLBACK_NEGATIVE_WORDS })
            /\ (\A run \in runs : Word(run) \notin FALLBACK_POSITIVE_WORDS \cup FALLBACK_NEGATIVE_WORDS)
                  => result[c] = FallbackPrediction(<<>>, rating[c])

\* C21 witness: "love9", a longer run holding the word "love", was scored
\* with rating 4 exactly as the empty text is.
C21_Witness ==
    \E c \in FallbackResults :
        /\ reviewText[c] = <<"l","o","v","e","9">>
        /\ rating[c] = Num(4)
        /\ MaximalRuns(reviewText[c]) = { <<1, 5>> }
        /\ result[c] = FallbackPrediction(<<>>, Num(4))

(* --------------------- properties of the remote path -------------------- *)

\* C22: for a valid remote prediction the settled result is the backend's,
\* whatever the confidence field is, and its confidence is that field when
\* the field is of type number and is absent when the field is missing, a
\* string or null.
C22_ConfidenceTyping ==
    \A c \in Calls :
        (pc[c] = "done" /\ RemoteSuccess(net[c])) =>
            LET field == Field(net[c].json.v, "confidence")
            IN  /\ result[c].source = "backend"
                /\ toasts[c] = 0
                /\ field.t = "number" => result[c].confidence = field
                /\ field.t \in {"undefined", "string", "null"} => result[c].confidence = Undefined
                /\ field.t \in {"number", "undefined", "string", "null"}

\* C22 witness: a valid prediction came with the confidence "0.9", a string,
\* and the backend result carries no confidence.
C22_Witness ==
    \E c \in Calls :
        /\ pc[c] = "done"
        /\ RemoteSuccess(net[c])
        /\ Field(net[c].json.v, "confidence") = Str(<<"0",".","9">>)
        /\ result[c].source = "backend"
        /\ result[c].confidence = Undefined

\* The prediction field is a number, or a string of digits.
NumericEncoding(field) ==
    \/ field.t = "number"
    \/ /\ field.t = "string"
       /\ field.s # <<>>
       /\ \A i \in DOMAIN field.s : field.s[i] \in Range(Digits)

\* C23: a result tagged "backend" is returned only when the response's
\* prediction field is a number or a numeric string denoting 0 or 1; a field
\* that is null, a boolean, the empty string, an array or absent ends in the
\* fallback result.
C23_NumericEncodingsOnly ==
    \A c \in Calls :
        (pc[c] = "done" /\ net[c].settle = "resolve" /\ net[c].ok /\ net[c].json.r = "value") =>
            LET field == Field(net[c].json.v, "prediction")
            IN  /\ result[c].source = "backend"
                      => NumericEncoding(field) /\ Coerced(net[c]) \in { Num(0), Num(1) }
                /\ ( \/ field.t \in {"null", "boolean", "array", "undefined"}
                     \/ field = Str(<<>>) )
                      => result[c].source = "fallback"

\* C23 witness: a response whose prediction field is null was accepted and
\* returned as the backend's prediction 0.
C23_Witness ==
    \E c \in Calls :
        /\ pc[c] = "done"
        /\ net[c].json.r = "value"
        /\ Field(net[c].json.v, "prediction") = Null
        /\ result[c].source = "backend"
        /\ result[c].prediction = 0

\* C24 as stated: every invocation issues one request, a POST to /api/predict
\* with a JSON content type, whose body holds the caller's reviewText and the
\* caller's rating, encoded as a number.
C24_RequestShape ==
    \A c \in Calls :
        pc[c] # "idle" =>
            /\ fetches[c] = 1
            /\ request[c].method = "POST"
            /\ request[c].path = <<"api", "predict">>
            /\ request[c].contentType = "application/json"
            /\ request[c].body.reviewText = Str(reviewText[c])
            /\ request[c].body.rating = rating[c]
            /\ request[c].body.rating.t = "number"

\* C24 amended: the same for a finite rating; for a rating that is not finite
\* the body's rating field is null.
C24_RequestShapeFiniteRating ==
    \A c \in Calls :
        pc[c] # "idle" =>
            /\ fetches[c] = 1
            /\ request[c].method = "POST"
            /\ request[c].path = <<"api", "predict">>
            /\ request[c].contentType = "application/json"
            /\ request[c].body.reviewText = Str(reviewText[c])
            /\ IF IsFinite(rating[c])
               THEN request[c].body.rating = rating[c] /\ request[c].body.rating.t = "number"
               ELSE request[c].body.rating = Null

\* C24 witness: a request was issued for the rating NaN, with a null rating.
C24_Witness ==
    \E c \in Calls :
        /\ pc[c] = "fetch"
        /\ rating[c] = NaN
        /\ reviewText[c] = <<"l","o","v","e">>
        /\ request[c].body = [ reviewText |-> Str(<<"l","o","v","e">>), rating |-> Null ]

C26_FallbackDependsOnArgumentsOnly ==
    \A c \in FallbackResults :
        LET scored == FallbackPrediction(reviewText[c], rating[c])
            o == net[c]
        IN  /\ result[c].prediction = scored.prediction
            /\ result[c].confidence = scored.confidence
            /\ DOMAIN result[c] = {"prediction", "confidence", "source"}
            /\ (o.json.r = "value" /\ Field(o.json.v, "confidence").t = "number")
                  => result[c].confidence # Field(o.json.v, "confidence")
            /\ InvalidValue(o) => Num(result[c].prediction) # Coerced(o)

\* C26 witness: a response with prediction 2 and confidence 0.9 was rejected,
\* and the fallback result for "love" rated 5 carries the scorer's confidence.
C26_Witness ==
    \E c \in FallbackResults :
        /\ InvalidValue(net[c])
        /\ Field(net[c].json.v, "prediction") = Num(2)
        /\ Field(net[c].json.v, "confidence") = Num(900000)
        /\ reviewText[c] = <<"l","o","v","e">>
        /\ rating[c] = Num(5)
        /\ result[c].confidence = Num(911600)

\* The rating lies in the star range [1, 5].
InStarRange(r) == IsFinite(r) /\ ~JsLess(r, Num(1)) /\ ~JsLess(Num(5), r)

\* C27: for every scored review with a rating in [1, 5] the rating adjustment
\* lies in [-4/3, 4/3]; a keyword balance of 2 or more gives prediction 1 and
\* one of -2 or less prediction 0; a balance of -1 with rating 5 gives
\* prediction 1 and a balance of +1 with rating 1 prediction 0.
C27_BoundedRatingInfluence ==
    \A c \in FallbackResults :
        InStarRange(rating[c]) =>
            LET adjustment == RatingAdjustment(rating[c])
                balance == Balance(reviewText[c])
            IN  /\ IsFinite(adjustment)
                /\ 0 - 4 <= adjustment.n /\ adjustment.n <= 4
                /\ balance >= 2 => result[c].prediction = 1
                /\ balance <= 0 - 2 => result[c].prediction = 0
                /\ (balance = 0 - 1 /\ rating[c] = Num(5)) => result[c].prediction = 1
                /\ (balance = 1 /\ rating[c] = Num(1)) => result[c].prediction = 0

\* C27 witness: one negative keyword with rating 5 was scored as prediction 1.
C27_Witness ==
    \E c \in FallbackResults :
        /\ reviewText[c] = <<"B","A","D","!">>
        /\ Balance(reviewText[c]) = 0 - 1
        /\ rating[c] = Num(5)
        /\ result[c].prediction = 1

\* A lower-case word token: a non-empty run of lower-case letters.
LowercaseWord(w) == w # <<>> /\ \A i \in DOMAIN w : w[i] \in Range(LowerLetters)

\* C28: the two lexicons are disjoint sets of lower-case word tokens; in
\* every scored text no token position counts for both scores, and
\* positiveScore + negativeScore is at most the number of tokens.
C28_LexiconInvariant ==
    /\ FALLBACK_POSITIVE_WORDS \cap FALLBACK_NEGATIVE_WORDS = {}
    /\ \A w \in FALLBACK_POSITIVE_WORDS \cup FALLBACK_NEGATIVE_WORDS : LowercaseWord(w)
    /\ \A c \in FallbackResults :
          LET text == reviewText[c]
          IN  /\ Occurrences(text, FALLBACK_POSITIVE_WORDS)
                    \cap Occurrences(text, FALLBACK_NEGATIVE_WORDS) = {}
              /\ PositiveScore(text) + NegativeScore(text) <= Len(Tokens(text))

\* C28 witness: "love BAD!" was scored: two tokens, one counted for each score.
C28_Witness ==
    \E c \in FallbackResults :
        /\ reviewText[c] = <<"l","o","v","e"," ","B","A","D","!">>
        /\ Len(Tokens(reviewText[c])) = 2
        /\ PositiveScore(reviewText[c]) = 1
        /\ NegativeScore(reviewText[c]) = 1

(* ---------------------- properties of the Index page -------------------- *)

\* The number of pages of the result set of the current search and category.
CurrentTotalPages ==
    TotalPagesOf(Trim(searchQuery),
                 IF selectedCategory = "All" THEN Undefined ELSE Str(selectedCategory))

\* C29: the selected page lies between 1 and the number of pages of the
\* result set for the current search and category.
C29_PageInRange == 1 <= page /\ page <= CurrentTotalPages

\* C29 witness: after a change of category the links of the previous result
\* were still on screen, and a click on the last of them selected a page
\* beyond the last page of the result set of the new category.
C29_Witness ==
    /\ selectedCategory = "Dresses"
    /\ productsData # Undefined
    /\ productsData.category = "All"
    /\ page = productsData.totalPages
    /\ page > CurrentTotalPages

\* C30: a change of the search text sets page to 1 and leaves the category,
\* a change of category sets page to 1 and leaves the search text; Previous,
\* Next and the page links leave both filters; Previous leaves page 1 and
\* Next leaves a page that is not below the totalPages on screen.
C30_FilterChangeResetsPaging ==
    [][ /\ (\E value \in Searches : OnSearchChange(value))
              => page' = 1 /\ selectedCategory' = selectedCategory /\ searchQuery' # searchQuery
        /\ (\E category \in Categories \cup {"All"} : OnCategoryChange(category))
              => page' = 1 /\ searchQuery' = searchQuery
        /\ (PreviousClick \/ NextClick \/ \E pageNumber \in 1..MaxPages : PageLinkClick(pageNumber))
              => searchQuery' = searchQuery /\ selectedCategory' = selectedCategory
        /\ (PreviousClick /\ page = 1) => page' = page
        /\ (PreviousClick /\ page > 1) => page' = page - 1
        /\ (NextClick /\ page >= totalPages) => page' = page
        /\ (NextClick /\ page < totalPages) => page' = page + 1
      ]_vars

\* C30 witness: the category was changed on page 2: the page is 1 again, the
\* search text is kept, and page 2 of the previous result is still on screen.
C30_Witness ==
    /\ page = 1
    /\ searchQuery = <<"t","o","p">>
    /\ selectedCategory = "Dresses"
    /\ productsData # Undefined
    /\ productsData.page = 2
    /\ productsData.category = "All"
    /\ productsData.search = <<"t","o","p">>

====
